---- MODULE Spec2Model ----
(***************************************************************************)
(* Model of tutorial/models.py: Django models whose integrity rules are    *)
(* row-level Postgres triggers declared with django-pgtrigger.             *)
(*                                                                         *)
(* State: the rows of each table, the per-thread stack of ignored trigger  *)
(* URIs (pgtrigger.ignore), the ignore blocks each session's code is       *)
(* inside, the position of each session inside                             *)
(* OfficialInterfaceManager.official_create, and the outcome the caller    *)
(* got from its last statement.  One action per statement a session can    *)
(* issue; every action runs the table's triggers as Postgres does: BEFORE  *)
(* ROW triggers in name order, each seeing the NEW row the one before it   *)
(* returned; a raise aborts the statement, RETURN NULL skips the           *)
(* operation, and a trigger whose URI the session ignores is a no-op.      *)
(* Primary keys are handed out in order; a refused insert takes none.      *)
(***************************************************************************)
EXTENDS Integers, Sequences, FiniteSets, TLC

\* ------------------------------------------------------------------ bounds
MaxRows == 2        \* rows ever inserted into one table
MaxDepth == 2       \* ignore blocks a caller nests around its calls
MaxVersion == 3     \* largest Versioned.version
MaxEvents == 6      \* rows of Tracked's event table
MaxTotal == 1       \* rows ever inserted over all tables, where all are written together

Sessions == {"s1", "s2"}
Chars == {"a", "b"}

VARIABLES
    ignore,             \* [Sessions -> Seq(URI)]: the thread's ignored triggers, innermost last
    scopes,             \* [Sessions -> Seq(URI)]: the ignore blocks the thread's code is inside
    pc,                 \* [Sessions -> position inside official_create]
    atCall,             \* [Sessions -> ignore[s] when official_create was called]
    cannotDeleteRows,   \* set of ids: rows of CannotDelete
    softDeleteRows,     \* [ids -> [is_active]]: rows of SoftDelete
    versionedRows,      \* [ids -> [version, char_field]]: rows of Versioned
    officialRows,       \* set of ids: rows of OfficialInterface
    fsmRows,            \* [ids -> [status]]: rows of FSM
    held,               \* [Sessions -> a Versioned instance a session read, or NoRow]
    fsmLife,            \* [ids -> [given, status, changes]]: how each FSM row was inserted
                        \* and how often its status changed since
    appendOnlyRows,     \* [ids -> [int_field]]: rows of AppendOnly
    readOnlyRows,       \* [ids -> [created_at, int_field]]: rows of ReadOnlyField
    trackedRows,        \* [ids -> [int_field, char_field]]: rows of Tracked
    events,             \* Seq of [label, obj_id, int_field, char_field]: Tracked's event table
    seq,                \* [model name -> last primary key handed out]
    last                \* what the caller saw of its last statement or block exit

threads == <<ignore, scopes, pc, atCall>>
moreTables == <<appendOnlyRows, readOnlyRows, trackedRows, events, fsmLife, held>>
tables == <<cannotDeleteRows, softDeleteRows, versionedRows, officialRows, fsmRows, moreTables>>
vars == <<threads, tables, seq, last>>

Models == {"CannotDelete", "SoftDelete", "Versioned", "OfficialInterface", "FSM",
           "AppendOnly", "ReadOnlyField", "Tracked"}

\* ------------------------------------------------------- trigger identity
\* A trigger URI as pgtrigger.ignore takes it: "<app>.<Model>:<trigger name>".
Uri(model, trigger) == "tutorial." \o model \o ":" \o trigger.name

\* The URI is ignored in the session's own thread.
Ignored(s, uri) == \E i \in 1..Len(ignore[s]) : ignore[s][i] = uri

\* A declared trigger applies its action to a statement of session s: it is
\* bound to the operation, its condition holds of OLD and NEW, and the
\* session does not ignore it.
Applies(s, model, trigger, op, condition) ==
    /\ op \in trigger.operation
    /\ condition
    /\ ~Ignored(s, Uri(model, trigger))

\* Entering an ignore block.
Suppress(stack, uri) == Append(stack, uri)

\* Leaving the innermost ignore block: its entry goes.
Release(stack) == SubSeq(stack, 1, Len(stack) - 1)

\* ------------------------------------------------------------- responses
NoRow == [none |-> TRUE]

Response(s, model, op, id, new, result, by) ==
    [session |-> s, model |-> model, op |-> op, id |-> id, new |-> new,
     result |-> result, by |-> by]

Put(rows, id, row) == [i \in DOMAIN rows \cup {id} |-> IF i = id THEN row ELSE rows[i]]
Drop(rows, id) == [i \in DOMAIN rows \ {id} |-> rows[i]]

\* ------------------------------------------------------------ CannotDelete
protect_deletes_on_update == [name |-> "protect_deletes", operation |-> {"UPDATE"}]

protect_deletes == [name |-> "protect_deletes", operation |-> {"DELETE"}]

CannotDeleteInsert(s) ==
    /\ pc[s] = "idle"
    /\ seq["CannotDelete"] < MaxRows
    /\ LET id == seq["CannotDelete"] + 1 IN
        /\ cannotDeleteRows' = cannotDeleteRows \cup {id}
        /\ seq' = [seq EXCEPT !["CannotDelete"] = id]
        /\ last' = Response(s, "CannotDelete", "INSERT", id, NoRow, "ok", "")
    /\ UNCHANGED <<moreTables, threads, softDeleteRows, versionedRows, officialRows, fsmRows>>

CannotDeleteDelete(s, id) ==
    /\ pc[s] = "idle"
    /\ id \in cannotDeleteRows
    /\ IF Applies(s, "CannotDelete", protect_deletes, "DELETE", TRUE)
       THEN /\ cannotDeleteRows' = cannotDeleteRows
            /\ last' = Response(s, "CannotDelete", "DELETE", id, NoRow,
                                "PolicyViolation", protect_deletes.name)
       ELSE /\ cannotDeleteRows' = cannotDeleteRows \ {id}
            /\ last' = Response(s, "CannotDelete", "DELETE", id, NoRow, "ok", "")
    /\ UNCHANGED <<moreTables, threads, softDeleteRows, versionedRows, officialRows, fsmRows, seq>>

\* ------------------------------------------------------- OfficialInterface
protect_inserts_on_update == [name |-> "protect_inserts", operation |-> {"UPDATE"}]

protect_inserts == [name |-> "protect_inserts", operation |-> {"INSERT"}]

official_create_ignore_other_trigger == "tutorial.Versioned:versioned"

\* The URI official_create is decorated with.
official_create_ignore == "tutorial.OfficialInterface:protect_inserts"

\* Model.objects.create(): one INSERT, guarded by protect_inserts.  outcome
\* is what the database does with an insert no trigger refuses.
OfficialInsertRow(s, outcome) ==
    IF Applies(s, "OfficialInterface", protect_inserts, "INSERT", TRUE)
    THEN /\ UNCHANGED <<officialRows, seq>>
         /\ last' = Response(s, "OfficialInterface", "INSERT", 0, NoRow,
                             "PolicyViolation", protect_inserts.name)
    ELSE IF outcome = "DatabaseError"
    THEN /\ UNCHANGED <<officialRows, seq>>
         /\ last' = Response(s, "OfficialInterface", "INSERT", 0, NoRow,
                             "DatabaseError", "")
    ELSE LET id == seq["OfficialInterface"] + 1 IN
         /\ id <= MaxRows
         /\ officialRows' = officialRows \cup {id}
         /\ seq' = [seq EXCEPT !["OfficialInterface"] = id]
         /\ last' = Response(s, "OfficialInterface", "INSERT", id, NoRow, "ok", "")

\* OfficialInterface.objects.create() called directly.
OfficialCreate(s, outcome) ==
    /\ pc[s] = "idle"
    /\ OfficialInsertRow(s, outcome)
    /\ UNCHANGED <<moreTables, threads, cannotDeleteRows, softDeleteRows, versionedRows, fsmRows>>

OfficialCreateEnterAllSessions(s) ==
    /\ pc[s] = "idle"
    /\ ignore' = [t \in Sessions |-> Suppress(ignore[t], official_create_ignore)]
    /\ scopes' = [scopes EXCEPT ![s] = Append(@, official_create_ignore)]
    /\ atCall' = [atCall EXCEPT ![s] = ignore[s]]
    /\ pc' = [pc EXCEPT ![s] = "create"]
    /\ UNCHANGED <<tables, seq, last>>

\* official_create is called: the decorator enters the ignore block, which
\* is the calling thread's own.
OfficialCreateEnter(s) ==
    /\ pc[s] = "idle"
    /\ ignore' = [ignore EXCEPT ![s] = Suppress(@, official_create_ignore)]
    /\ scopes' = [scopes EXCEPT ![s] = Append(@, official_create_ignore)]
    /\ atCall' = [atCall EXCEPT ![s] = ignore[s]]
    /\ pc' = [pc EXCEPT ![s] = "create"]
    /\ UNCHANGED <<tables, seq, last>>

\* The body: return self.create().
OfficialCreateBody(s, outcome) ==
    /\ pc[s] = "create"
    /\ OfficialInsertRow(s, outcome)
    /\ pc' = [pc EXCEPT ![s] = IF last'.result = "ok" THEN "return" ELSE "raise"]
    /\ UNCHANGED <<moreTables, ignore, scopes, atCall, cannotDeleteRows, softDeleteRows,
                   versionedRows, fsmRows>>

OfficialCreateExitOnReturnOnly(s) ==
    /\ pc[s] \in {"return", "raise"}
    /\ ignore' = [ignore EXCEPT ![s] = IF pc[s] = "return" THEN Release(@) ELSE @]
    /\ scopes' = [scopes EXCEPT ![s] = SubSeq(@, 1, Len(@) - 1)]
    /\ atCall' = [atCall EXCEPT ![s] = <<>>]
    /\ pc' = [pc EXCEPT ![s] = "idle"]
    /\ UNCHANGED <<tables, seq, last>>

OfficialCreateExitEveryEntry(s) ==
    /\ pc[s] \in {"return", "raise"}
    /\ ignore' = [ignore EXCEPT ![s] = SelectSeq(@, LAMBDA u : u # official_create_ignore)]
    /\ scopes' = [scopes EXCEPT ![s] = SubSeq(@, 1, Len(@) - 1)]
    /\ atCall' = [atCall EXCEPT ![s] = <<>>]
    /\ pc' = [pc EXCEPT ![s] = "idle"]
    /\ UNCHANGED <<tables, seq, last>>

\* The decorator leaves the ignore block as the body returns or raises.
OfficialCreateExit(s) ==
    /\ pc[s] \in {"return", "raise"}
    /\ ignore' = [ignore EXCEPT ![s] = Release(@)]
    /\ scopes' = [scopes EXCEPT ![s] = SubSeq(@, 1, Len(@) - 1)]
    /\ atCall' = [atCall EXCEPT ![s] = <<>>]
    /\ pc' = [pc EXCEPT ![s] = "idle"]
    /\ UNCHANGED <<tables, seq, last>>

\* -------------------------------------------------------------- SoftDelete
soft_delete_sets_true ==
    [name |-> "soft_delete", operation |-> {"DELETE"}, field |-> "is_active", value |-> TRUE]

soft_delete ==
    [name |-> "soft_delete", operation |-> {"DELETE"}, field |-> "is_active", value |-> FALSE]

\* is_active = models.BooleanField(default=True); the caller may pass a value.
SoftDeleteInsert(s, is_active) ==
    /\ pc[s] = "idle"
    /\ seq["SoftDelete"] < MaxRows
    /\ LET id == seq["SoftDelete"] + 1
           new == [is_active |-> is_active] IN
        /\ softDeleteRows' = Put(softDeleteRows, id, new)
        /\ seq' = [seq EXCEPT !["SoftDelete"] = id]
        /\ last' = Response(s, "SoftDelete", "INSERT", id, new, "ok", "")
    /\ UNCHANGED <<moreTables, threads, cannotDeleteRows, versionedRows, officialRows, fsmRows>>

\* No trigger is bound to UPDATE.
SoftDeleteUpdate(s, id, is_active) ==
    /\ pc[s] = "idle"
    /\ id \in DOMAIN softDeleteRows
    /\ LET new == [is_active |-> is_active] IN
        /\ softDeleteRows' = Put(softDeleteRows, id, new)
        /\ last' = Response(s, "SoftDelete", "UPDATE", id, new, "ok", "")
    /\ UNCHANGED <<moreTables, threads, cannotDeleteRows, versionedRows, officialRows, fsmRows, seq>>

SoftDeleteDeleteOnlyActive(s, id) ==
    /\ pc[s] = "idle"
    /\ id \in DOMAIN softDeleteRows
    /\ IF Applies(s, "SoftDelete", soft_delete, "DELETE", softDeleteRows[id].is_active)
       THEN softDeleteRows' =
                Put(softDeleteRows, id,
                    [softDeleteRows[id] EXCEPT ![soft_delete.field] = soft_delete.value])
       ELSE softDeleteRows' = Drop(softDeleteRows, id)
    /\ last' = Response(s, "SoftDelete", "DELETE", id, softDeleteRows[id], "ok", "")
    /\ UNCHANGED <<moreTables, threads, cannotDeleteRows, versionedRows, officialRows, fsmRows, seq>>

\* pgtrigger.SoftDelete, BEFORE DELETE: UPDATE the row's field to the value
\* and RETURN NULL, which skips the delete.  The response carries the row
\* the DELETE found.
SoftDeleteDelete(s, id) ==
    /\ pc[s] = "idle"
    /\ id \in DOMAIN softDeleteRows
    /\ IF Applies(s, "SoftDelete", soft_delete, "DELETE", TRUE)
       THEN softDeleteRows' =
                Put(softDeleteRows, id,
                    [softDeleteRows[id] EXCEPT ![soft_delete.field] = soft_delete.value])
       ELSE softDeleteRows' = Drop(softDeleteRows, id)
    /\ last' = Response(s, "SoftDelete", "DELETE", id, softDeleteRows[id], "ok", "")
    /\ UNCHANGED <<moreTables, threads, cannotDeleteRows, versionedRows, officialRows, fsmRows, seq>>

\* --------------------------------------------------------------- Versioned
protect_version_edits_on_insert == [name |-> "protect_version_edits", operation |-> {"INSERT"}]

protect_version_edits == [name |-> "protect_version_edits", operation |-> {"UPDATE"}]

protect_version_edits_lower(old, new) == new.version < old.version

\* Q(old__version__df=F('new__version')): OLD.version IS DISTINCT FROM NEW.version
protect_version_edits_condition(old, new) == old.version # new.version

versioned == [name |-> "versioned", operation |-> {"UPDATE"}]

versioned_always(old, new) == TRUE

\* Condition('OLD.* IS DISTINCT FROM NEW.*')
versioned_condition(old, new) == old # new

versioned_func_from_old(old, new) == [new EXCEPT !.version = old.version + 2]

\* NEW.version = NEW.version + 1; RETURN NEW;
versioned_func(old, new) == [new EXCEPT !.version = @ + 1]

\* default=0
version_default == 0

\* version = models.IntegerField(default=0); the caller may pass a value.
VersionedInsert(s, version, char_field) ==
    /\ pc[s] = "idle"
    /\ seq["Versioned"] < MaxRows
    /\ LET id == seq["Versioned"] + 1
           new == [version |-> version, char_field |-> char_field] IN
        /\ versionedRows' = Put(versionedRows, id, new)
        /\ seq' = [seq EXCEPT !["Versioned"] = id]
        /\ last' = Response(s, "Versioned", "INSERT", id, new, "ok", "")
    /\ UNCHANGED <<appendOnlyRows, readOnlyRows, trackedRows, events, fsmLife, held, threads,
                 cannotDeleteRows, softDeleteRows, officialRows, fsmRows>>

\* Versioned.objects.get(id=id): the session holds the row as it read it.
\* The instance keeps the version it was read with: save() does not read
\* back what the triggers stored.  succeeded counts the successful saves
\* of the instance that changed char_field.
VersionedRead(s, id) ==
    /\ pc[s] = "idle"
    /\ id \in DOMAIN versionedRows
    /\ held' = [held EXCEPT ![s] = [id |-> id,
                                    version |-> versionedRows[id].version,
                                    char_field |-> versionedRows[id].char_field,
                                    succeeded |-> 0]]
    /\ UNCHANGED <<appendOnlyRows, readOnlyRows, trackedRows, events, fsmLife, threads,
                   cannotDeleteRows, softDeleteRows, versionedRows, officialRows,
                   fsmRows, seq, last>>

\* The update is a save() of the instance the session holds, with a new
\* char_field and the version the instance was read with.
SavesHeld(s, id, new) ==
    /\ held[s] # NoRow
    /\ held[s].id = id
    /\ new.version = held[s].version
    /\ new.char_field # held[s].char_field

\* UPDATE ... SET version = .., char_field = .. WHERE id = ..: the BEFORE
\* UPDATE triggers run in name order, protect_version_edits on the submitted
\* row, then versioned.
VersionedUpdate(s, id, version, char_field) ==
    /\ pc[s] = "idle"
    /\ id \in DOMAIN versionedRows
    /\ LET old == versionedRows[id]
           new == [version |-> version, char_field |-> char_field] IN
       IF Applies(s, "Versioned", protect_version_edits, "UPDATE",
                  protect_version_edits_condition(old, new))
       THEN /\ UNCHANGED <<versionedRows, held>>
            /\ last' = Response(s, "Versioned", "UPDATE", id, new,
                                "PolicyViolation", protect_version_edits.name)
       ELSE LET stored == IF Applies(s, "Versioned", versioned, "UPDATE",
                                     versioned_condition(old, new))
                          THEN versioned_func(old, new)
                          ELSE new IN
            /\ stored.version <= MaxVersion
            /\ versionedRows' = Put(versionedRows, id, stored)
            /\ last' = Response(s, "Versioned", "UPDATE", id, new, "ok", "")
            /\ held' = IF SavesHeld(s, id, new)
                       THEN [held EXCEPT ![s].succeeded = @ + 1]
                       ELSE held
    /\ UNCHANGED <<appendOnlyRows, readOnlyRows, trackedRows, events, fsmLife, threads,
                 cannotDeleteRows, softDeleteRows, officialRows, fsmRows, seq>>

\* --------------------------------------------------------------------- FSM
\* FSM.Status and a value outside the choices, which the column also takes.
StatusValues == {"unpublished", "published", "inactive", "archived"}

transitions_with_reverse ==
    {<<"unpublished", "published">>, <<"unpublished", "inactive">>,
     <<"published", "inactive">>, <<"published", "unpublished">>}

transitions ==
    {<<"unpublished", "published">>, <<"unpublished", "inactive">>,
     <<"published", "inactive">>}

check_status_transitions ==
    [name |-> "check_status_transitions", operation |-> {"UPDATE"}, field |-> "status"]

check_status_transitions_condition_sources_only(old, new) ==
    /\ old[check_status_transitions.field] # new[check_status_transitions.field]
    /\ old[check_status_transitions.field] \notin {e[1] : e \in transitions}

\* pgtrigger.FSM raises when the field changed and (OLD, NEW) is no declared
\* transition.
check_status_transitions_condition(old, new) ==
    /\ old[check_status_transitions.field] # new[check_status_transitions.field]
    /\ <<old[check_status_transitions.field], new[check_status_transitions.field]>>
         \notin transitions

\* A create() that passes no status.
Unset == "UNSET"

status_default_published == "published"

\* default=Status.UNPUBLISHED
status_default == "unpublished"

\* status defaults to Status.UNPUBLISHED; the caller may pass a value, which
\* no trigger looks at: check_status_transitions is bound to UPDATE.
FSMInsert(s, status) ==
    /\ pc[s] = "idle"
    /\ seq["FSM"] < MaxRows
    /\ LET id == seq["FSM"] + 1
           new == [status |-> IF status = Unset THEN status_default ELSE status] IN
        /\ fsmRows' = Put(fsmRows, id, new)
        /\ fsmLife' = Put(fsmLife, id,
                          [given |-> status, status |-> new.status, changes |-> 0])
        /\ seq' = [seq EXCEPT !["FSM"] = id]
        /\ last' = Response(s, "FSM", "INSERT", id, new, "ok", "")
    /\ UNCHANGED <<appendOnlyRows, readOnlyRows, trackedRows, events, held, threads, cannotDeleteRows, softDeleteRows, versionedRows, officialRows>>

FSMUpdateWritesThenRaises(s, id, status) ==
    /\ pc[s] = "idle"
    /\ id \in DOMAIN fsmRows
    /\ LET old == fsmRows[id]
           new == [status |-> status] IN
        /\ fsmRows' = Put(fsmRows, id, new)
        /\ fsmLife' = [fsmLife EXCEPT ![id].changes = IF new = old THEN @ ELSE @ + 1]
        /\ last' = IF Applies(s, "FSM", check_status_transitions, "UPDATE",
                              check_status_transitions_condition(old, new))
                   THEN Response(s, "FSM", "UPDATE", id, new,
                                 "PolicyViolation", check_status_transitions.name)
                   ELSE Response(s, "FSM", "UPDATE", id, new, "ok", "")
    /\ UNCHANGED <<appendOnlyRows, readOnlyRows, trackedRows, events, held, threads, cannotDeleteRows, softDeleteRows, versionedRows, officialRows, seq>>

\* A raise in the BEFORE UPDATE trigger aborts the statement: nothing is
\* written.
FSMUpdate(s, id, status) ==
    /\ pc[s] = "idle"
    /\ id \in DOMAIN fsmRows
    /\ LET old == fsmRows[id]
           new == [status |-> status] IN
       IF Applies(s, "FSM", check_status_transitions, "UPDATE",
                  check_status_transitions_condition(old, new))
       THEN /\ UNCHANGED <<fsmRows, fsmLife>>
            /\ last' = Response(s, "FSM", "UPDATE", id, new,
                                "PolicyViolation", check_status_transitions.name)
       ELSE /\ fsmRows' = Put(fsmRows, id, new)
            /\ fsmLife' = [fsmLife EXCEPT ![id].changes = IF new = old THEN @ ELSE @ + 1]
            /\ last' = Response(s, "FSM", "UPDATE", id, new, "ok", "")
    /\ UNCHANGED <<appendOnlyRows, readOnlyRows, trackedRows, events, held, threads, cannotDeleteRows, softDeleteRows, versionedRows, officialRows, seq>>

\* ----------------------------------------------------------- ReadOnlyField
firstTables == <<cannotDeleteRows, softDeleteRows, versionedRows, officialRows, fsmRows, fsmLife, held>>

\* Timestamps, and the NULL a caller can submit for a column.
Times == {"t1", "t2"}
Null == "NULL"
Bits == {0, 1}

read_only_field == [name |-> "read_only_field", operation |-> {"UPDATE"}]

\* Plain <>: not true when an operand is NULL.
read_only_field_not_equal(old, new) ==
    /\ old.created_at # Null
    /\ new.created_at # Null
    /\ old.created_at # new.created_at

\* Q(old__created_at__df=F("new__created_at")):
\* OLD.created_at IS DISTINCT FROM NEW.created_at, NULL being a value like another.
read_only_field_condition(old, new) == old.created_at # new.created_at

\* created_at = DateTimeField(auto_now_add=True): the insert stores the time
\* of the call, never NULL.
ReadOnlyFieldInsert(s, now, int_field) ==
    /\ pc[s] = "idle"
    /\ seq["ReadOnlyField"] < MaxRows
    /\ LET id == seq["ReadOnlyField"] + 1
           new == [created_at |-> now, int_field |-> int_field] IN
        /\ readOnlyRows' = Put(readOnlyRows, id, new)
        /\ seq' = [seq EXCEPT !["ReadOnlyField"] = id]
        /\ last' = Response(s, "ReadOnlyField", "INSERT", id, new, "ok", "")
    /\ UNCHANGED <<threads, firstTables, appendOnlyRows, trackedRows, events>>

\* The BEFORE UPDATE trigger runs before the column's NOT NULL is checked.
ReadOnlyFieldUpdate(s, id, created_at, int_field) ==
    /\ pc[s] = "idle"
    /\ id \in DOMAIN readOnlyRows
    /\ LET old == readOnlyRows[id]
           new == [created_at |-> created_at, int_field |-> int_field] IN
       IF Applies(s, "ReadOnlyField", read_only_field, "UPDATE",
                  read_only_field_condition(old, new))
       THEN /\ readOnlyRows' = readOnlyRows
            /\ last' = Response(s, "ReadOnlyField", "UPDATE", id, new,
                                "PolicyViolation", read_only_field.name)
       ELSE IF new.created_at = Null
       THEN /\ readOnlyRows' = readOnlyRows
            /\ last' = Response(s, "ReadOnlyField", "UPDATE", id, new,
                                "IntegrityError", "")
       ELSE /\ readOnlyRows' = Put(readOnlyRows, id, new)
            /\ last' = Response(s, "ReadOnlyField", "UPDATE", id, new, "ok", "")
    /\ UNCHANGED <<threads, firstTables, appendOnlyRows, trackedRows, events, seq>>

\* No trigger is bound to DELETE.
ReadOnlyFieldDelete(s, id) ==
    /\ pc[s] = "idle"
    /\ id \in DOMAIN readOnlyRows
    /\ readOnlyRows' = Drop(readOnlyRows, id)
    /\ last' = Response(s, "ReadOnlyField", "DELETE", id, NoRow, "ok", "")
    /\ UNCHANGED <<threads, firstTables, appendOnlyRows, trackedRows, events, seq>>

\* -------------------------------------------------------------- AppendOnly
append_only_update_only == [name |-> "append_only", operation |-> {"UPDATE"}]

\* operation=(pgtrigger.Update | pgtrigger.Delete)
append_only == [name |-> "append_only", operation |-> {"UPDATE", "DELETE"}]

\* No trigger is bound to INSERT.
AppendOnlyInsert(s, int_field) ==
    /\ pc[s] = "idle"
    /\ seq["AppendOnly"] < MaxRows
    /\ LET id == seq["AppendOnly"] + 1
           new == [int_field |-> int_field] IN
        /\ appendOnlyRows' = Put(appendOnlyRows, id, new)
        /\ seq' = [seq EXCEPT !["AppendOnly"] = id]
        /\ last' = Response(s, "AppendOnly", "INSERT", id, new, "ok", "")
    /\ UNCHANGED <<threads, firstTables, readOnlyRows, trackedRows, events>>

AppendOnlyUpdate(s, id, int_field) ==
    /\ pc[s] = "idle"
    /\ id \in DOMAIN appendOnlyRows
    /\ LET new == [int_field |-> int_field] IN
       IF Applies(s, "AppendOnly", append_only, "UPDATE", TRUE)
       THEN /\ appendOnlyRows' = appendOnlyRows
            /\ last' = Response(s, "AppendOnly", "UPDATE", id, new,
                                "PolicyViolation", append_only.name)
       ELSE /\ appendOnlyRows' = Put(appendOnlyRows, id, new)
            /\ last' = Response(s, "AppendOnly", "UPDATE", id, new, "ok", "")
    /\ UNCHANGED <<threads, firstTables, readOnlyRows, trackedRows, events, seq>>

AppendOnlyDelete(s, id) ==
    /\ pc[s] = "idle"
    /\ id \in DOMAIN appendOnlyRows
    /\ IF Applies(s, "AppendOnly", append_only, "DELETE", TRUE)
       THEN /\ appendOnlyRows' = appendOnlyRows
            /\ last' = Response(s, "AppendOnly", "DELETE", id, NoRow,
                                "PolicyViolation", append_only.name)
       ELSE /\ appendOnlyRows' = Drop(appendOnlyRows, id)
            /\ last' = Response(s, "AppendOnly", "DELETE", id, NoRow, "ok", "")
    /\ UNCHANGED <<threads, firstTables, readOnlyRows, trackedRows, events, seq>>

\* ----------------------------------------------------------------- Tracked
Ints == {-1, 0, 1}

\* pghistory.Snapshot('snapshot'): "a snapshot event on every insert/update".
snapshot == [name |-> "snapshot", operation |-> {"INSERT", "UPDATE"}]

\* pghistory.AfterInsert('create')
create == [name |-> "create", operation |-> {"INSERT"}]

low_int_on_insert_too == [name |-> "low_int", operation |-> {"INSERT", "UPDATE"}]

\* pghistory.AfterUpdate('low_int', condition=...)
low_int == [name |-> "low_int", operation |-> {"UPDATE"}]

low_int_not_positive(old, new) == new.int_field <= 0

\* Q(new__int_field__lt=0)
low_int_condition(old, new) == new.int_field < 0

\* The event a history trigger stores: its label, the tracked row's id and the
\* NEW row's columns.
Event(trigger, id, new) ==
    [label |-> trigger.name, obj_id |-> id,
     int_field |-> new.int_field, char_field |-> new.char_field]

\* The events the AFTER ROW triggers of a statement append, in name order.
TrackedEvents(s, op, id, old, new) ==
    (IF Applies(s, "Tracked", create, op, TRUE)
        THEN <<Event(create, id, new)>> ELSE <<>>)
    \o (IF Applies(s, "Tracked", low_int, op, low_int_condition(old, new))
        THEN <<Event(low_int, id, new)>> ELSE <<>>)
    \o (IF Applies(s, "Tracked", snapshot, op, TRUE)
        THEN <<Event(snapshot, id, new)>> ELSE <<>>)

TrackedInsert(s, int_field, char_field) ==
    /\ pc[s] = "idle"
    /\ seq["Tracked"] < MaxRows
    /\ LET id == seq["Tracked"] + 1
           new == [int_field |-> int_field, char_field |-> char_field]
           added == TrackedEvents(s, "INSERT", id, new, new) IN
        /\ Len(events) + Len(added) <= MaxEvents
        /\ trackedRows' = Put(trackedRows, id, new)
        /\ events' = events \o added
        /\ seq' = [seq EXCEPT !["Tracked"] = id]
        /\ last' = Response(s, "Tracked", "INSERT", id, new, "ok", "")
    /\ UNCHANGED <<threads, firstTables, appendOnlyRows, readOnlyRows>>

TrackedUpdate(s, id, int_field, char_field) ==
    /\ pc[s] = "idle"
    /\ id \in DOMAIN trackedRows
    /\ LET old == trackedRows[id]
           new == [int_field |-> int_field, char_field |-> char_field]
           added == TrackedEvents(s, "UPDATE", id, old, new) IN
        /\ Len(events) + Len(added) <= MaxEvents
        /\ trackedRows' = Put(trackedRows, id, new)
        /\ events' = events \o added
        /\ last' = Response(s, "Tracked", "UPDATE", id, new, "ok", "")
    /\ UNCHANGED <<threads, firstTables, appendOnlyRows, readOnlyRows, seq>>

\* ------------------------------------------------- ignore blocks of callers
\* The triggers a caller wraps its calls in pgtrigger.ignore for.
IgnoreUris == {Uri("CannotDelete", protect_deletes), Uri("OfficialInterface", protect_inserts)}

\* with pgtrigger.ignore(uri): entered by the caller's code.
IgnoreEnter(s, uri) ==
    /\ pc[s] = "idle"
    /\ Len(scopes[s]) < MaxDepth
    /\ ignore' = [ignore EXCEPT ![s] = Suppress(@, uri)]
    /\ scopes' = [scopes EXCEPT ![s] = Append(@, uri)]
    /\ UNCHANGED <<pc, atCall, tables, seq, last>>

\* The innermost block of the caller's code ends.
IgnoreExit(s) ==
    /\ pc[s] = "idle"
    /\ Len(scopes[s]) > 0
    /\ LET uri == scopes[s][Len(scopes[s])] IN
        /\ ignore' = [ignore EXCEPT ![s] = Release(@)]
        /\ last' = Response(s, "", "EXIT", 0, NoRow, "ok", uri)
    /\ scopes' = [scopes EXCEPT ![s] = SubSeq(@, 1, Len(@) - 1)]
    /\ UNCHANGED <<pc, atCall, tables, seq>>

\* ------------------------------------------------------------------- Init
Init ==
    /\ ignore = [s \in Sessions |-> <<>>]
    /\ scopes = [s \in Sessions |-> <<>>]
    /\ pc = [s \in Sessions |-> "idle"]
    /\ atCall = [s \in Sessions |-> <<>>]
    /\ cannotDeleteRows = {}
    /\ softDeleteRows = <<>>
    /\ versionedRows = <<>>
    /\ officialRows = {}
    /\ fsmRows = <<>>
    /\ fsmLife = <<>>
    /\ held = [s \in Sessions |-> NoRow]
    /\ appendOnlyRows = <<>>
    /\ readOnlyRows = <<>>
    /\ trackedRows = <<>>
    /\ events = <<>>
    /\ seq = [m \in Models |-> 0]
    /\ last = Response("", "", "", 0, NoRow, "", "")

NextOfficial ==
    \E s \in Sessions :
        \/ OfficialCreateEnter(s)
        \/ \E outcome \in {"ok", "DatabaseError"} : OfficialCreateBody(s, outcome)
        \/ OfficialCreateExit(s)
        \/ \E outcome \in {"ok", "DatabaseError"} : OfficialCreate(s, outcome)

NextIgnore ==
    \E s \in Sessions :
        \/ \E uri \in IgnoreUris : IgnoreEnter(s, uri)
        \/ IgnoreExit(s)

NextCannotDelete ==
    \E s \in Sessions :
        \/ CannotDeleteInsert(s)
        \/ \E id \in 1..MaxRows : CannotDeleteDelete(s, id)

NextSoftDelete ==
    \E s \in Sessions :
        \/ \E is_active \in BOOLEAN : SoftDeleteInsert(s, is_active)
        \/ \E id \in 1..MaxRows, is_active \in BOOLEAN : SoftDeleteUpdate(s, id, is_active)
        \/ \E id \in 1..MaxRows : SoftDeleteDelete(s, id)

NextVersioned ==
    \E s \in Sessions, version \in 0..MaxVersion, char_field \in Chars :
        \/ VersionedInsert(s, version, char_field)
        \/ \E id \in 1..MaxRows : VersionedUpdate(s, id, version, char_field)

\* Sessions that read a row and save it back: instance.char_field = ..;
\* instance.save().
NextOptimistic ==
    \E s \in Sessions :
        \/ \E char_field \in Chars : VersionedInsert(s, version_default, char_field)
        \/ \E id \in 1..MaxRows : VersionedRead(s, id)
        \/ \E char_field \in Chars :
              /\ held[s] # NoRow
              /\ VersionedUpdate(s, held[s].id, held[s].version, char_field)

NextFSM ==
    \E s \in Sessions :
        \/ \E status \in StatusValues \cup {Unset} : FSMInsert(s, status)
        \/ \E id \in 1..MaxRows, status \in StatusValues : FSMUpdate(s, id, status)

NextReadOnlyField ==
    \E s \in Sessions, int_field \in Bits :
        \/ \E now \in Times : ReadOnlyFieldInsert(s, now, int_field)
        \/ \E id \in 1..MaxRows, created_at \in Times \cup {Null} :
              ReadOnlyFieldUpdate(s, id, created_at, int_field)
        \/ \E id \in 1..MaxRows : ReadOnlyFieldDelete(s, id)

NextAppendOnly ==
    \E s \in Sessions :
        \/ \E int_field \in Bits : AppendOnlyInsert(s, int_field)
        \/ \E id \in 1..MaxRows, int_field \in Bits : AppendOnlyUpdate(s, id, int_field)
        \/ \E id \in 1..MaxRows : AppendOnlyDelete(s, id)

NextTracked ==
    \E s \in Sessions, int_field \in Ints, char_field \in Chars :
        \/ TrackedInsert(s, int_field, char_field)
        \/ \E id \in 1..MaxRows : TrackedUpdate(s, id, int_field, char_field)

\* The repository's only ignore block: official_create.
SpecOfficial == Init /\ [][NextOfficial]_vars

\* official_create called by code that nests ignore blocks of its own.
SpecIgnore == Init /\ [][NextOfficial \/ NextIgnore]_vars

\* CannotDelete written by code that may ignore its trigger.
SpecCannotDelete == Init /\ [][NextCannotDelete \/ NextIgnore]_vars

\* A table written by sessions that also call official_create.
SpecSoftDelete == Init /\ [][NextSoftDelete \/ NextOfficial]_vars

\* Versioned written by two sessions.
SpecVersioned == Init /\ [][NextVersioned]_vars

\* FSM written by two sessions.
SpecFSM == Init /\ [][NextFSM]_vars

\* ReadOnlyField written by two sessions.
SpecReadOnlyField == Init /\ [][NextReadOnlyField]_vars

\* AppendOnly written by sessions that also call official_create.
SpecAppendOnly == Init /\ [][NextAppendOnly \/ NextOfficial]_vars

\* Tracked written by two sessions.
SpecTracked == Init /\ [][NextTracked]_vars

\* Rows handed a primary key so far, over the tables guarded by a policy.
TotalRows(keys) ==
    keys["CannotDelete"] + keys["AppendOnly"] + keys["ReadOnlyField"] + keys["SoftDelete"]
    + keys["Versioned"] + keys["OfficialInterface"] + keys["FSM"]

\* Versioned rows read and saved back by two sessions.
SpecOptimistic == Init /\ [][NextOptimistic /\ TotalRows(seq') <= MaxTotal]_vars

NextPolicies ==
    \/ NextCannotDelete
    \/ NextAppendOnly
    \/ NextReadOnlyField
    \/ NextSoftDelete
    \/ NextVersioned
    \/ NextOfficial
    \/ NextFSM

\* All the tables guarded by a policy, written by sessions that also call
\* official_create.
Spec == Init /\ [][NextPolicies /\ TotalRows(seq') <= MaxTotal]_vars

\* ================================================================== claims
\* The session's code is inside an ignore block for the URI.
Suppresses(s, uri) == \E i \in 1..Len(scopes[s]) : scopes[s][i] = uri

\* Ignore blocks for the URI the session's code has entered and not left.
Count(s, uri) == Cardinality({i \in 1..Len(scopes[s]) : scopes[s][i] = uri})

\* This step is a statement op on model, answered to its caller.
Statement(model, op) == last' # last /\ last'.model = model /\ last'.op = op

\* C1: a delete of a CannotDelete row by a session that does not suppress
\* protect_deletes fails with a policy violation and removes nothing; a row
\* leaves the table only by a delete of a session that suppresses it.
C1_DeleteProtected ==
    [][ /\ (Statement("CannotDelete", "DELETE")
            /\ ~Suppresses(last'.session, "tutorial.CannotDelete:protect_deletes"))
           => /\ last'.result = "PolicyViolation"
              /\ cannotDeleteRows' = cannotDeleteRows
        /\ \A id \in cannotDeleteRows : id \notin cannotDeleteRows' =>
              /\ Statement("CannotDelete", "DELETE")
              /\ last'.id = id
              /\ Suppresses(last'.session, "tutorial.CannotDelete:protect_deletes")
      ]_vars

C1_Witness ==
    /\ last.model = "CannotDelete" /\ last.op = "DELETE"
    /\ last.result = "PolicyViolation" /\ last.by = "protect_deletes"
    /\ last.id \in cannotDeleteRows
    /\ scopes[last.session] = <<>>

\* The edges the claim names.
C2_DeclaredEdges ==
    {<<"unpublished", "published">>, <<"unpublished", "inactive">>,
     <<"published", "inactive">>}

\* C2: an update of an FSM row that changes status succeeds if and only if
\* (OLD.status, NEW.status) is (unpublished, published), (unpublished,
\* inactive) or (published, inactive); an update that keeps status succeeds;
\* a refused update is a policy violation that leaves the table as it was.
C2_Transitions ==
    [][ \A id \in DOMAIN fsmRows :
          (Statement("FSM", "UPDATE") /\ last'.id = id) =>
            LET old == fsmRows[id].status
                new == last'.new.status IN
            /\ old # new => (last'.result = "ok" <=> <<old, new>> \in C2_DeclaredEdges)
            /\ old = new => last'.result = "ok"
            /\ last'.result = "ok" => fsmRows'[id].status = new
            /\ last'.result # "ok" =>
                  /\ last'.result = "PolicyViolation"
                  /\ last'.by = "check_status_transitions"
                  /\ fsmRows' = fsmRows
      ]_vars

C2_Witness ==
    /\ last.model = "FSM" /\ last.op = "UPDATE"
    /\ last.result = "PolicyViolation"
    /\ last.new.status = "unpublished"
    /\ fsmRows[last.id].status = "published"

\* C3: a successful update of a Versioned row whose submitted row differs
\* from OLD in some column stores OLD.version + 1 as the version, and the
\* submitted char_field.
C3_VersionIncrements ==
    [][ \A id \in DOMAIN versionedRows :
          ( /\ Statement("Versioned", "UPDATE")
            /\ last'.id = id
            /\ last'.result = "ok"
            /\ last'.new # versionedRows[id] )
          => /\ versionedRows'[id].version = versionedRows[id].version + 1
             /\ versionedRows'[id].char_field = last'.new.char_field
      ]_vars

C3_Witness ==
    /\ last.model = "Versioned" /\ last.op = "UPDATE" /\ last.result = "ok"
    /\ versionedRows[last.id].version = last.new.version + 1
    /\ versionedRows[last.id].char_field = last.new.char_field

\* C4: an update of a Versioned row whose submitted version differs from
\* OLD.version is refused by protect_version_edits with a policy violation,
\* whatever char_field it submits, and changes no row.
C4_VersionEditsDenied ==
    [][ \A id \in DOMAIN versionedRows :
          ( /\ Statement("Versioned", "UPDATE")
            /\ last'.id = id
            /\ last'.new.version # versionedRows[id].version )
          => /\ last'.result = "PolicyViolation"
             /\ last'.by = "protect_version_edits"
             /\ versionedRows' = versionedRows
      ]_vars

C4_Witness ==
    /\ last.model = "Versioned" /\ last.op = "UPDATE"
    /\ last.result = "PolicyViolation" /\ last.by = "protect_version_edits"
    /\ last.new.version > versionedRows[last.id].version
    /\ last.new.char_field # versionedRows[last.id].char_field

C6_SoftDeleteKeepsRow ==
    [][ /\ \A id \in DOMAIN softDeleteRows :
              (Statement("SoftDelete", "DELETE") /\ last'.id = id) =>
                /\ id \in DOMAIN softDeleteRows'
                /\ softDeleteRows'[id].is_active = FALSE
        /\ DOMAIN softDeleteRows \subseteq DOMAIN softDeleteRows'
        /\ Cardinality(DOMAIN softDeleteRows') >= Cardinality(DOMAIN softDeleteRows)
      ]_vars

C6_Witness ==
    /\ last.model = "SoftDelete" /\ last.op = "DELETE" /\ last.result = "ok"
    /\ last.id \in DOMAIN softDeleteRows
    /\ softDeleteRows[last.id].is_active = FALSE
    /\ Cardinality(DOMAIN softDeleteRows) = MaxRows

\* C7: an insert into OfficialInterface succeeds only in the body of
\* official_create, where protect_inserts is suppressed; an insert by a
\* session outside official_create fails with a policy violation and adds no
\* row.
C7_InsertOnlyOfficial ==
    [][ /\ Statement("OfficialInterface", "INSERT") =>
              /\ last'.result = "ok" =>
                    /\ pc[last'.session] = "create"
                    /\ Suppresses(last'.session, "tutorial.OfficialInterface:protect_inserts")
              /\ pc[last'.session] = "idle" =>
                    /\ last'.result = "PolicyViolation"
                    /\ officialRows' = officialRows
        /\ officialRows' # officialRows =>
              \E s \in Sessions : pc[s] = "create" /\ pc'[s] = "return"
      ]_vars

C7_Witness ==
    /\ last.model = "OfficialInterface" /\ last.op = "INSERT"
    /\ last.result = "PolicyViolation" /\ last.by = "protect_inserts"
    /\ pc[last.session] = "idle"
    /\ officialRows # {}

\* C8: while another session is inside official_create, an insert into
\* OfficialInterface by a session that is inside no block suppressing
\* protect_inserts is denied and adds no row.
C8_SuppressionPerSession ==
    [][ \A s \in Sessions :
          ( /\ Statement("OfficialInterface", "INSERT")
            /\ last'.session = s
            /\ ~Suppresses(s, "tutorial.OfficialInterface:protect_inserts")
            /\ \E t \in Sessions \ {s} : pc[t] # "idle" )
          => /\ last'.result = "PolicyViolation"
             /\ officialRows' = officialRows
      ]_vars

C8_Witness ==
    /\ last.model = "OfficialInterface" /\ last.op = "INSERT"
    /\ last.result = "PolicyViolation"
    /\ scopes[last.session] = <<>>
    /\ \E t \in Sessions \ {last.session} :
          pc[t] = "create" /\ Suppresses(t, "tutorial.OfficialInterface:protect_inserts")

\* C9: when official_create returns or raises, the session's ignore stack is
\* what it was when official_create was called, and an insert the session
\* then makes outside any block of its own for protect_inserts is denied.
C9_ReleasedOnEveryExit ==
    [][ \A s \in Sessions :
          /\ (pc[s] \in {"return", "raise"} /\ pc'[s] = "idle") => ignore'[s] = atCall[s]
          /\ ( /\ Statement("OfficialInterface", "INSERT")
               /\ last'.session = s
               /\ pc[s] = "idle"
               /\ ~Suppresses(s, "tutorial.OfficialInterface:protect_inserts") )
             => last'.result = "PolicyViolation"
      ]_vars

C9_Witness ==
    /\ last.model = "OfficialInterface" /\ last.op = "INSERT"
    /\ last.result = "DatabaseError"
    /\ pc[last.session] = "idle"
    /\ Len(ignore[last.session]) > 0
    /\ ignore[last.session] = scopes[last.session]

\* C10: an insert into OfficialInterface is refused by protect_inserts exactly
\* when the session has entered as many ignore blocks for it as it has left;
\* after the first exit of two nested blocks the trigger is still ignored.
C10_SuppressionNests ==
    [][ Statement("OfficialInterface", "INSERT") =>
          ( last'.result = "PolicyViolation"
            <=> Count(last'.session, "tutorial.OfficialInterface:protect_inserts") = 0 )
      ]_vars

C10_Witness ==
    /\ last.op = "EXIT"
    /\ last.by = "tutorial.OfficialInterface:protect_inserts"
    /\ Count(last.session, "tutorial.OfficialInterface:protect_inserts") = 1
    /\ Ignored(last.session, "tutorial.OfficialInterface:protect_inserts")

\* C11: an update of a ReadOnlyField row is refused by read_only_field if and
\* only if the submitted created_at is distinct from OLD.created_at, a
\* submitted NULL counting as distinct from a stored time; an update that
\* keeps created_at and changes int_field succeeds and stores int_field; no
\* step changes the created_at of a row.
C11_CreatedAtReadOnly ==
    [][ /\ \A id \in DOMAIN readOnlyRows :
              (Statement("ReadOnlyField", "UPDATE") /\ last'.id = id) =>
                LET old == readOnlyRows[id]
                    new == last'.new IN
                /\ (last'.result = "PolicyViolation" /\ last'.by = "read_only_field")
                      <=> old.created_at # new.created_at
                /\ last'.result # "ok" <=> old.created_at # new.created_at
                /\ old.created_at = new.created_at => readOnlyRows'[id] = new
        /\ \A id \in DOMAIN readOnlyRows \cap DOMAIN readOnlyRows' :
              readOnlyRows'[id].created_at = readOnlyRows[id].created_at
      ]_vars

C11_Witness ==
    /\ last.model = "ReadOnlyField" /\ last.op = "UPDATE"
    /\ last.result = "PolicyViolation" /\ last.by = "read_only_field"
    /\ last.new.created_at \in Times
    /\ last.new.int_field = readOnlyRows[last.id].int_field
    /\ last.new.created_at # readOnlyRows[last.id].created_at

\* C12: every update and every delete of an AppendOnly row is refused by
\* append_only with a policy violation, every insert succeeds and adds its
\* row, and no step removes an AppendOnly row or changes a column of one.
C12_AppendOnly ==
    [][ /\ (Statement("AppendOnly", "UPDATE") \/ Statement("AppendOnly", "DELETE")) =>
              /\ last'.result = "PolicyViolation"
              /\ last'.by = "append_only"
        /\ Statement("AppendOnly", "INSERT") =>
              /\ last'.result = "ok"
              /\ last'.id \notin DOMAIN appendOnlyRows
              /\ last'.id \in DOMAIN appendOnlyRows'
              /\ appendOnlyRows'[last'.id] = last'.new
        /\ \A id \in DOMAIN appendOnlyRows :
              /\ id \in DOMAIN appendOnlyRows'
              /\ appendOnlyRows'[id] = appendOnlyRows[id]
      ]_vars

C12_Witness ==
    /\ last.model = "AppendOnly" /\ last.op = "DELETE"
    /\ last.result = "PolicyViolation" /\ last.by = "append_only"
    /\ last.id \in DOMAIN appendOnlyRows
    /\ Cardinality(DOMAIN appendOnlyRows) = MaxRows

\* This step is a statement op on Tracked.
TrackedStatement(op) ==
    /\ last'.model = "Tracked" /\ last'.op = op
    /\ (last' # last \/ events' # events \/ trackedRows' # trackedRows)

\* The events this step appended.
Added == SubSeq(events', Len(events) + 1, Len(events'))

\* How many of the appended events carry the label.
AddedWith(label) == Cardinality({i \in 1..Len(Added) : Added[i].label = label})

\* The event table grew at its end, by events that reference the row of the
\* statement and carry the row it submitted.
AppendedFor(id, new) ==
    /\ Len(events') >= Len(events)
    /\ SubSeq(events', 1, Len(events)) = events
    /\ \A i \in 1..Len(Added) :
          /\ Added[i].obj_id = id
          /\ Added[i].int_field = new.int_field
          /\ Added[i].char_field = new.char_field

\* C13: every insert into Tracked, whatever its int_field, appends exactly
\* one 'create' event and exactly one 'snapshot' event, both referencing the
\* inserted row, and no 'low_int' event.
C13_InsertEvents ==
    [][ TrackedStatement("INSERT") =>
          /\ last'.result = "ok"
          /\ AppendedFor(last'.id, last'.new)
          /\ Len(Added) = 2
          /\ AddedWith("create") = 1
          /\ AddedWith("snapshot") = 1
          /\ AddedWith("low_int") = 0
      ]_vars

C13_Witness ==
    /\ last.model = "Tracked" /\ last.op = "INSERT" /\ last.result = "ok"
    /\ last.new.int_field < 0
    /\ Len(events) >= 2
    /\ events[Len(events)].obj_id = last.id
    /\ {events[Len(events)].label, events[Len(events) - 1].label} = {"create", "snapshot"}

C15_DeniedWriteNoEffect ==
    [][ ( /\ last' # last
          /\ last'.result = "PolicyViolation"
          /\ last'.model \in {"CannotDelete", "AppendOnly", "ReadOnlyField", "Versioned",
                              "OfficialInterface", "FSM"} )
        => /\ cannotDeleteRows' = cannotDeleteRows
           /\ appendOnlyRows' = appendOnlyRows
           /\ readOnlyRows' = readOnlyRows
           /\ softDeleteRows' = softDeleteRows
           /\ versionedRows' = versionedRows
           /\ officialRows' = officialRows
           /\ fsmRows' = fsmRows
      ]_vars

C15_Witness ==
    /\ last.model = "FSM" /\ last.op = "UPDATE"
    /\ last.result = "PolicyViolation" /\ last.by = "check_status_transitions"
    /\ fsmRows[last.id].status = "inactive"
    /\ last.new.status = "published"

\* C16: a delete of a SoftDelete row leaves the table as it was but for that
\* row's is_active = False, whatever is_active was; a delete of a row that is
\* already soft-deleted succeeds and leaves the table exactly as it was.
C16_SoftDeleteIdempotent ==
    [][ \A id \in DOMAIN softDeleteRows :
          (Statement("SoftDelete", "DELETE") /\ last'.id = id) =>
            /\ last'.result = "ok"
            /\ softDeleteRows' = Put(softDeleteRows, id, [is_active |-> FALSE])
            /\ softDeleteRows[id].is_active = FALSE => softDeleteRows' = softDeleteRows
      ]_vars

C16_Witness ==
    /\ last.model = "SoftDelete" /\ last.op = "DELETE" /\ last.result = "ok"
    /\ last.new.is_active = FALSE
    /\ last.id \in DOMAIN softDeleteRows
    /\ softDeleteRows[last.id].is_active = FALSE

\* C17: while a session is inside official_create, protect_inserts does not
\* apply to its statements and every other trigger does: protect_deletes,
\* append_only, read_only_field, soft_delete, protect_version_edits,
\* versioned and check_status_transitions each apply to a statement of the
\* session on their table and operation.
C17_SuppressionSpecific ==
    \A s \in Sessions :
        pc[s] # "idle" =>
            /\ ~Applies(s, "OfficialInterface", protect_inserts, "INSERT", TRUE)
            /\ Applies(s, "CannotDelete", protect_deletes, "DELETE", TRUE)
            /\ Applies(s, "AppendOnly", append_only, "UPDATE", TRUE)
            /\ Applies(s, "AppendOnly", append_only, "DELETE", TRUE)
            /\ Applies(s, "ReadOnlyField", read_only_field, "UPDATE", TRUE)
            /\ Applies(s, "SoftDelete", soft_delete, "DELETE", TRUE)
            /\ Applies(s, "Versioned", protect_version_edits, "UPDATE", TRUE)
            /\ Applies(s, "Versioned", versioned, "UPDATE", TRUE)
            /\ Applies(s, "FSM", check_status_transitions, "UPDATE", TRUE)

C17_Witness ==
    /\ \E s \in Sessions : pc[s] = "create"
    /\ DOMAIN versionedRows # {}
    /\ last.model = "Versioned" /\ last.op = "UPDATE"
    /\ last.result = "PolicyViolation" /\ last.by = "protect_version_edits"
\* The statuses reachable from a status along at most n declared edges.
RECURSIVE ReachableWithin(_, _)
ReachableWithin(n, from) ==
    IF n = 0 THEN {from}
    ELSE LET near == ReachableWithin(n - 1, from) IN
         near \cup {e[2] : e \in {d \in C2_DeclaredEdges : d[1] \in near}}

Reachable(from, to) == to \in ReachableWithin(Cardinality(StatusValues), from)

\* C18 as stated: every FSM row starts its life with status 'unpublished', so
\* every status a row ever holds is reachable from 'unpublished' along
\* declared edges.  An insert that passes a status refutes it.
C18_EveryRowStartsUnpublished ==
    \A id \in DOMAIN fsmRows :
        /\ fsmLife[id].status = "unpublished"
        /\ Reachable("unpublished", fsmRows[id].status)

\* C18: a row inserted without a status starts with 'unpublished', the
\* field's default; an insert may pass any status, and every status a row
\* ever holds is reachable along declared edges from the status it was
\* inserted with.
C18_StartsAtInsertedStatus ==
    \A id \in DOMAIN fsmRows :
        /\ fsmLife[id].given = Unset => fsmLife[id].status = "unpublished"
        /\ fsmLife[id].given # Unset => fsmLife[id].status = fsmLife[id].given
        /\ Reachable(fsmLife[id].status, fsmRows[id].status)

C18_Witness ==
    \E id, other \in DOMAIN fsmRows :
        /\ fsmLife[id].given = Unset
        /\ fsmRows[id].status = "inactive"
        /\ fsmLife[other].given = "published"

\* C19: 'inactive' is absorbing, no row's status becomes 'unpublished' once
\* it is something else, and a row's status changes at most twice in its
\* lifetime.
C19_OnlyForward ==
    /\ [][\A id \in DOMAIN fsmRows :
            /\ fsmRows[id].status = "inactive" => fsmRows'[id].status = "inactive"
            /\ fsmRows[id].status # "unpublished" => fsmRows'[id].status # "unpublished"
         ]_vars
    /\ [](\A id \in DOMAIN fsmRows : fsmLife[id].changes <= 2)

C19_Witness ==
    \E id \in DOMAIN fsmRows :
        /\ fsmLife[id].changes = 2
        /\ fsmRows[id].status = "inactive"
        /\ last.model = "FSM" /\ last.op = "UPDATE" /\ last.id = id
        /\ last.result = "PolicyViolation"

\* The sessions that hold the same Versioned row read at the same version.
SameRead(s, t) ==
    /\ held[s] # NoRow /\ held[t] # NoRow
    /\ held[s].id = held[t].id
    /\ held[s].version = held[t].version

\* The step is a save by session s of the instance it holds, with a changed
\* char_field and the version it read.
SaveStep(s) ==
    /\ Statement("Versioned", "UPDATE")
    /\ last'.session = s
    /\ SavesHeld(s, last'.id, last'.new)

\* C20: of the saves that two sessions make of one Versioned row they both
\* read at version v, each changing char_field and carrying version = v, at
\* most one succeeds; a save succeeds only on the row as its session read
\* it and makes its version v + 1; a save that finds another version is
\* refused by protect_version_edits and changes no row; no step decreases a
\* row's version.
C20_OptimisticConcurrency ==
    /\ [](\A s, t \in Sessions :
            (s # t /\ SameRead(s, t)) => held[s].succeeded + held[t].succeeded <= 1)
    /\ [][ /\ \A s \in Sessions :
                SaveStep(s) =>
                    LET id == held[s].id IN
                    /\ last'.result = "ok" =>
                          /\ versionedRows[id].version = held[s].version
                          /\ versionedRows[id].char_field = held[s].char_field
                          /\ versionedRows'[id].version = held[s].version + 1
                          /\ versionedRows'[id].char_field = last'.new.char_field
                    /\ versionedRows[id].version # held[s].version =>
                          /\ last'.result = "PolicyViolation"
                          /\ last'.by = "protect_version_edits"
                          /\ versionedRows' = versionedRows
           /\ \A id \in DOMAIN versionedRows :
                versionedRows'[id].version >= versionedRows[id].version
         ]_vars

C20_Witness ==
    \E s, t \in Sessions :
        /\ s # t /\ SameRead(s, t)
        /\ held[s].succeeded = 1
        /\ held[t].succeeded = 0
        /\ last.session = t /\ last.model = "Versioned" /\ last.op = "UPDATE"
        /\ last.id = held[t].id
        /\ last.new.version = held[t].version
        /\ last.new.char_field # held[t].char_field
        /\ last.result = "PolicyViolation"
        /\ versionedRows[last.id].version = held[t].version + 1

====
